---- MODULE Spec2Model ----
(***************************************************************************)
(* LDAP -> PostgreSQL migration: the orchestration engine                  *)
(* (MigrationService.migrate / processClient / processUser), the LDAP      *)
(* connection state of LdapService and the store operations of             *)
(* DatabaseService, as one state machine.                                  *)
(*                                                                         *)
(* Under Spec one behaviour is one call of migrate() in one process; the   *)
(* other specifications add a termination signal (SpecSignal), a second    *)
(* run (SpecRerun), credentials of any shape (SpecConvert) and a failing   *)
(* logger (SpecLogFail).  The directory                                    *)
(* and the store are the environment: what a search returns and whether a  *)
(* bind, a query, a find or a save succeeds is chosen when the call        *)
(* settles.  The user tasks of a batch are separate coroutines that        *)
(* interleave at their awaits.                                             *)
(***************************************************************************)
EXTENDS Integers, Sequences, FiniteSets, TLC

(* ----------------------------- bounds ---------------------------------- *)
MaxClients == 2     \* longest searchClients result explored
MaxUsers == 3       \* longest searchUsers result explored
MaxBatch == 2       \* largest configured BATCH_SIZE explored
MaxTotalUsers == 3  \* most users the directory returns in one run

\* parseInt(process.env.MAX_CONCURRENT_USERS || '10', 10)
DefaultMaxConcurrentUsers == 10

(* --------------------------- value spaces ------------------------------- *)
Null == "null"

\* Credentials are token sequences: a leading tag token and content characters.
EmptyPassword == << >>
SshaAbc == << "{SSHA}", "a", "b", "c" >>

ClientOUs == { "clientA", "clientB" }

\* Entries the directory may return for a client (after the uid filter).
UserEntries ==
  { [ uid |-> "user1", givenName |-> "U", sn |-> "One", mail |-> "a@x.com",
      userPassword |-> SshaAbc, dn |-> "uid=user1" ],
    [ uid |-> "user2", givenName |-> "", sn |-> "", mail |-> "",
      userPassword |-> EmptyPassword, dn |-> "uid=user2" ] }

\* Outputs of bcrypt.hash over a freshly generated random password.
BcryptHashes == { "$2b$h1", "$2b$h2" }

SeqsUpTo(S, n) == UNION { [1..k -> S] : k \in 0..n }

\* Mutant: the first argument, whatever the second.
Min_First(a, b) == a

Min(a, b) == IF a < b THEN a ELSE b

VARIABLES
  pc,            \* position of migrate()
  error,         \* the error migrate() is throwing, or "none"
  result,        \* the MigrationResult built by migrate(), or NoResult
  batchSize,     \* ConfigurationService.batchSize
  dryRun,        \* ConfigurationService.dryRun
  dir,           \* the directory content when it is fixed for the behaviour
  maxConcurrentUsers,  \* ConfigurationService.maxConcurrentUsers
  dsState,       \* DataSource: "pending" | "ready" | "failed"
  isConnected,   \* LdapService.isConnected
  bound,         \* the LDAP client holds a bound connection
  tables,        \* tables that exist in the store
  clientRows,    \* clients table: client_id -> row or NoClientRow
  userRows,      \* users table: <<client id, username>> -> row or NoUserRow
  migrationLog,  \* migration_log table: sequence of rows
  nextId,        \* next generated client id
  stats,         \* MigrationStats
  clients,       \* result of searchClients
  i,             \* client loop index (0-based)
  dbClient,      \* id of the upserted client row (0: none)
  users,         \* result of searchUsers for the current client
  bi,            \* batch loop index (0-based offset into users)
  task,          \* per position of users: the state of its processUser call
  obs            \* observation record (calls made, outcomes seen)

vars == << pc, error, result, batchSize, dryRun, dir, maxConcurrentUsers, dsState, isConnected, bound, tables,
           clientRows, userRows, migrationLog, nextId, stats, clients, i,
           dbClient, users, bi, task, obs >>

\* What the process is configured with and the directory it reads: no step of
\* a run changes them.
env == << batchSize, dryRun, dir, maxConcurrentUsers >>

ClientIds == 0..(MaxClients + 1)
UserNames == { "user1", "user2", "user3" }
UserKeys == ClientIds \X UserNames

(* ------------------------------ stats ----------------------------------- *)
\* migration.service.ts: const stats = { ... }
InitialStats ==
  [ totalClients |-> 0, totalUsers |-> 0, successfulClients |-> 0,
    successfulUsers |-> 0, failedClients |-> 0, failedUsers |-> 0,
    errors |-> << >> ]

\* Absent rows and results, as records so that every cell has one type.
NoClientRow == [ id |-> 0, client_id |-> "", name |-> Null ]
NoUserRow ==
  [ client_id |-> 0, username |-> "", first_name |-> Null, last_name |-> Null,
    email |-> Null, password_hash |-> Null, ldap_dn |-> Null ]
NoResult ==
  [ success |-> FALSE, stats |-> InitialStats, dryRun |-> FALSE, built |-> FALSE ]

IdleTask == [ st |-> "idle", hash |-> Null, found |-> NoUserRow ]

InitialObs ==
  [ connects |-> 0,                       \* bind attempts
    clientSearches |-> 0,                 \* directory queries for clients
    userSearches |-> 0,                   \* directory queries for users
    upsertClientCalls |-> [ c \in 1..MaxClients |-> 0 ],
    clientOutcome |-> [ c \in 1..MaxClients |-> "none" ],
    enumerated |-> [ c \in 1..MaxClients |-> -1 ],  \* users found, -1: none
    upsertUserCalls |-> [ c \in 1..MaxClients |-> [ p \in 1..MaxUsers |-> 0 ] ],
    convertCalls |-> [ c \in 1..MaxClients |-> [ p \in 1..MaxUsers |-> 0 ] ],
    convertFailed |-> 0,                  \* conversions that bcrypt.hash failed
    usersOk |-> 0,                        \* user upserts that succeeded
    usersFailed |-> 0,                    \* user tasks whose upsert threw
    summaryInserts |-> 0,                 \* INSERT INTO migration_log issued
    summaryRows |-> 0,                    \* ... of which succeeded
    bindFailed |-> FALSE,                 \* the LDAP bind was refused
    storeDown |-> FALSE,                  \* a query met a DataSource not ready
    clientSearchOk |-> FALSE,             \* searchClients returned a list
    storeBefore |-> << >>,                \* the store as the run found it
    storeWrites |-> 0,                    \* statements that changed the store
    unbinds |-> 0,
    processed |-> << >>,                  \* names handed to processClient, in order
    batches |-> << >>,                    \* position sets of the batches started
    clientPct |-> -1,                     \* last percentage, client label
    userPct |-> -1,                       \* last percentage, users of the client
    zeroTotal |-> FALSE,                  \* progress was called with total 0
    run |-> 1,                            \* which run of the program this is
    first |-> << >>,                      \* the result of the run before it
    exitCode |-> -1,                      \* process.exit code, -1: still running
    calls |-> 0,                          \* LdapService calls made after migrate()
    validation |-> [ config |-> "none", ldap |-> "none", db |-> "none",
                     result |-> "none" ],  \* validateSetup: checks made, outcome
    listings |-> 0,                       \* --show-history invocations so far
    listed |-> FALSE,                     \* the last of them printed a listing
    history |-> << >> ]                   \* the listing it printed

\* The store as a process may find it: never used, or left by an earlier run
\* that migrated clientA with user1 and user2 as the directory then had them.
FreshStore ==
  [ tables |-> {},
    clientRows |-> [ ou \in ClientOUs |-> NoClientRow ],
    userRows |-> [ k \in UserKeys |-> NoUserRow ],
    migrationLog |-> << >>,
    nextId |-> 1 ]

OldUserRow ==
  [ client_id |-> 1, username |-> "user1", first_name |-> "Old", last_name |-> "Name",
    email |-> "old@x.com", password_hash |-> "$2b$h0", ldap_dn |-> "uid=user1,old" ]

OldUser2Row ==
  [ client_id |-> 1, username |-> "user2", first_name |-> "Old2", last_name |-> "Name2",
    email |-> "old2@x.com", password_hash |-> "$2b$h0", ldap_dn |-> "uid=user2,old" ]

OldSummaryRow ==
  [ total_clients |-> 1, total_users |-> 2, successful_clients |-> 1,
    successful_users |-> 2, failed_clients |-> 0, failed_users |-> 0,
    error_log |-> Null, dry_run |-> FALSE ]

UsedStore ==
  [ tables |-> { "clients", "users", "migration_log" },
    clientRows |-> [ ou \in ClientOUs |->
                     IF ou = "clientA" THEN [ id |-> 1, client_id |-> ou, name |-> Null ]
                     ELSE NoClientRow ],
    userRows |-> [ k \in UserKeys |-> IF k = << 1, "user1" >> THEN OldUserRow
                                      ELSE IF k = << 1, "user2" >> THEN OldUser2Row
                                      ELSE NoUserRow ],
    migrationLog |-> << OldSummaryRow >>,
    nextId |-> 2 ]

InitialStores == { FreshStore, UsedStore }

\* The directory when every search answers from one unchanged content; when
\* fixed is FALSE each search's answer is chosen as the search settles.
FreeDirectory ==
  [ fixed |-> FALSE, clients |-> << >>, users |-> [ ou \in ClientOUs |-> << >> ] ]

\* Users a run reads from directory d: one searchUsers per entry of d.clients.
RECURSIVE UsersRead(_, _)
UsersRead(d, c) ==
  IF c = 0 THEN 0 ELSE Len(d.users[d.clients[c]]) + UsersRead(d, c - 1)

FixedDirectories(entries) ==
  { d \in [ fixed : { TRUE }, clients : SeqsUpTo(ClientOUs, MaxClients),
            users : [ ClientOUs -> SeqsUpTo(entries, MaxUsers) ] ] :
      /\ UsersRead(d, Len(d.clients)) <= MaxTotalUsers
      /\ \A ou \in ClientOUs :
           (\A c \in DOMAIN d.clients : d.clients[c] # ou) => d.users[ou] = << >> }

\* A process that has constructed its services and not yet called migrate().
ProcessStart(stores) ==
  /\ pc = "start"
  /\ error = "none"
  /\ result = NoResult
  /\ dsState = "pending"
  /\ isConnected = FALSE
  /\ bound = FALSE
  /\ \E store \in stores :
       /\ tables = store.tables
       /\ clientRows = store.clientRows
       /\ userRows = store.userRows
       /\ migrationLog = store.migrationLog
       /\ nextId = store.nextId
       /\ obs = [ InitialObs EXCEPT !.storeBefore = << store >> ]
  /\ stats = InitialStats
  /\ clients = << >>
  /\ i = 0
  /\ dbClient = 0
  /\ users = << >>
  /\ bi = 0
  /\ task = << >>

Init ==
  /\ ProcessStart(InitialStores)
  /\ batchSize \in 1..MaxBatch
  /\ dryRun \in BOOLEAN
  /\ maxConcurrentUsers = DefaultMaxConcurrentUsers
  /\ dir = FreeDirectory

(* ------------------------- pure helpers --------------------------------- *)
\* Mutant: the incoming value is stored whatever it is.
OrElse_Incoming(a, b) == a

\* JavaScript a || b on strings: the empty string and null/undefined are falsy.
OrElse(a, b) == IF a = "" \/ a = Null THEN b ELSE a

LdapTags == { "{SSHA}", "{SHA}", "{MD5}", "{CRYPT}", "{CLEARTEXT}" }

\* Mutant: {SSHA} is the one format handled, anything else is unsupported.
extractHashFromLdap_SshaOnly(ldapPassword) ==
  IF Len(ldapPassword) > 1 /\ Head(ldapPassword) = "{SSHA}"
  THEN Tail(ldapPassword)
  ELSE EmptyPassword

\* PasswordUtils.extractHashFromLdap: the content after a recognized tag when
\* the pattern ^\{TAG\}(.+)$ matches, the whole input otherwise.
extractHashFromLdap(ldapPassword) ==
  IF Len(ldapPassword) > 1 /\ Head(ldapPassword) \in LdapTags
  THEN Tail(ldapPassword)
  ELSE ldapPassword

\* Mutant: the target credential is derived from the content of the source
\* hash instead of a generated password.
convertLdapPassword_FromSource(ldapPassword, bcryptOutcome) ==
  IF ldapPassword = EmptyPassword THEN Null
  ELSE IF bcryptOutcome = "throw" THEN Null
  ELSE IF extractHashFromLdap(ldapPassword) = << "a" >> THEN "$2b$h1"
  ELSE "$2b$h2"

\* Mutant: convertLdapPassword without its try/catch; what bcrypt.hash
\* settles to is handed on as it is.
convertLdapPassword_NoCatch(ldapPassword, bcryptOutcome) ==
  IF ldapPassword = EmptyPassword THEN Null ELSE bcryptOutcome

\* PasswordUtils.convertLdapPassword; bcryptOutcome is what bcrypt.hash over
\* the generated password settles to: a hash, or "throw".
convertLdapPassword(ldapPassword, bcryptOutcome) ==
  IF ldapPassword = EmptyPassword THEN Null
  ELSE IF extractHashFromLdap(ldapPassword) = EmptyPassword THEN Null
  ELSE IF bcryptOutcome = "throw" THEN Null
  ELSE bcryptOutcome

\* Mutant: the loop walks the list from its end.
ClientAt_Reversed(cs, idx) == cs[Len(cs) - idx]

\* clients[i], with i the 0-based index of the client loop
ClientAt(cs, idx) == cs[idx + 1]

\* The number NaN, which parseInt gives for a BATCH_SIZE that is not numeric;
\* written as a number no index and no size of the model can take.
NaN == -1000

MaxFall == 5        \* how far below 0 a loop index is followed; every index
                    \* at or below -users.length selects the same slices

\* i += batchSize: NaN stays NaN; a falling index is followed down to
\* -MaxFall, where it stays (in the code it stays at -2^53).
NextIndex(b, size) ==
  IF b = NaN \/ size = NaN THEN NaN
  ELSE IF b + size < -MaxFall THEN -MaxFall ELSE b + size

\* Array.prototype.slice: a bound that is NaN counts as 0, a negative bound
\* counts from the end, and every bound is clamped to 0..n.
RelativeIndex(k, n) ==
  IF k = NaN THEN 0
  ELSE IF k < 0 THEN (IF n + k < 0 THEN 0 ELSE n + k)
  ELSE IF k > n THEN n ELSE k

\* LoggerService.progress: Math.round((current / total) * 100); NaN, and a
\* total of 0 (NaN or Infinity), are written -1.
Percentage(current, total) ==
  IF total = 0 \/ current = NaN THEN -1
  ELSE (200 * current + total) \div (2 * total)

\* Mutant: slice(b), the rest of the list as one batch.
BatchPositions_NoEnd(b, n, size) == { p \in 1..n : b < p }

\* Mutant: slice(b, b + size - 1), an off-by-one end of the batch.
BatchPositions_ShortSlice(b, n, size) == { p \in 1..n : b < p /\ p < b + size }

\* users.slice(b, b + size): the positions (1-based) of the batch at offset b.
BatchPositions(b, n, size) ==
  { p \in 1..n : /\ RelativeIndex(b, n) < p
                 /\ p <= RelativeIndex(NextIndex(b, size), n) }

\* Mutant: the batch is not awaited (the promises are dropped).
AllSettled_NotAwaited(ps) == TRUE

\* await Promise.allSettled(promises): every task of the batch has settled.
AllSettled(ps) == \A p \in ps : task[p].st \in { "ok", "failed" }

\* Mutant: success looks at the client failures alone.
RunSucceeded_ClientsOnly(s) == s.failedClients = 0

\* success: stats.failedClients === 0 && stats.failedUsers === 0
RunSucceeded(s) == s.failedClients = 0 /\ s.failedUsers = 0

\* Mutant: the catch of the client loop only logs the error.
CountClientFailure_LogOnly(s, ou) == s

\* catch of the client loop: stats.failedClients++; stats.errors.push(...)
CountClientFailure(s, ou) ==
  [ s EXCEPT !.failedClients = @ + 1, !.errors = Append(@, << "Client", ou >>) ]

\* after await processClient(...): stats.successfulClients++
CountClientSuccess(s) == [ s EXCEPT !.successfulClients = @ + 1 ]

\* Mutant: processUser without its catch; allSettled absorbs the rejection
\* and nothing is counted.
CountUserFailure_Uncounted(s, uid) == s

\* Mutant: the catch counts the failure but records no message.
CountUserFailure_NoMessage(s, uid) == [ s EXCEPT !.failedUsers = @ + 1 ]

\* catch of processUser: stats.failedUsers++; stats.errors.push(...)
CountUserFailure(s, uid) ==
  [ s EXCEPT !.failedUsers = @ + 1, !.errors = Append(@, << "User", uid >>) ]

\* after await upsertUser(...): stats.successfulUsers++
CountUserSuccess(s) == [ s EXCEPT !.successfulUsers = @ + 1 ]

\* The store answers only once the DataSource has been initialised.
StoreAvailable == dsState = "ready"

Bump(field) == [ obs EXCEPT ![field] = @ + 1 ]

\* logger.progress(current, total, label) as seen in o; field holds the last
\* percentage of the label.
Progress(o, field, current, total) ==
  [ o EXCEPT ![field] = Percentage(current, total),
             !.zeroTotal = @ \/ total = 0 ]

(* --------------------------- the data source ---------------------------- *)
\* DatabaseService constructor: initializeDataSource() is started, not awaited;
\* it settles at any later moment.
DataSourceSettles ==
  /\ pc # "exited"
  /\ dsState = "pending"
  /\ dsState' \in { "ready", "failed" }
  /\ UNCHANGED << pc, error, result, env, isConnected, bound, tables,
                  clientRows, userRows, migrationLog, nextId, stats, clients, i,
                  dbClient, users, bi, task, obs >>

(* ------------------------------ migrate --------------------------------- *)
\* throw inside the outer try: catch logs and rethrows, then finally runs.
Throw(msg) == pc' = "finally" /\ error' = msg

MigrateStart ==
  /\ pc = "start"
  /\ pc' = "connect"
  /\ UNCHANGED << error, result, env, dsState, isConnected, bound, tables,
                  clientRows, userRows, migrationLog, nextId, stats, clients, i,
                  dbClient, users, bi, task, obs >>

\* Mutant: connect() logs the bind error and returns normally.
OnConnectFailure_Swallowed == pc' = "ddl1" /\ UNCHANGED error

\* LdapService.connect, catch: throw new Error(`LDAP connection failed: ...`)
OnConnectFailure == Throw("LDAP connection failed")

\* LdapService.connect
LdapConnect ==
  /\ pc = "connect"
  /\ \/ /\ isConnected' = TRUE
        /\ bound' = TRUE
        /\ pc' = "ddl1"
        /\ obs' = Bump("connects")
        /\ UNCHANGED error
     \/ /\ OnConnectFailure
        /\ obs' = [ obs EXCEPT !.connects = @ + 1, !.bindFailed = TRUE ]
        /\ UNCHANGED << isConnected, bound >>
  /\ UNCHANGED << result, env, dsState, tables, clientRows, userRows,
                  migrationLog, nextId, stats, clients, i, dbClient, users, bi,
                  task >>

\* DatabaseService.initializeTables: three CREATE TABLE IF NOT EXISTS queries.
DdlTable(p) ==
  IF p = "ddl1" THEN "clients" ELSE IF p = "ddl2" THEN "users" ELSE "migration_log"
DdlNext(p) ==
  IF p = "ddl1" THEN "ddl2" ELSE IF p = "ddl2" THEN "ddl3" ELSE "searchClients"

InitializeTables ==
  /\ pc \in { "ddl1", "ddl2", "ddl3" }
  /\ \/ /\ StoreAvailable
        /\ tables' = tables \cup { DdlTable(pc) }
        /\ obs' = IF DdlTable(pc) \in tables THEN obs ELSE Bump("storeWrites")
        /\ pc' = DdlNext(pc)
        /\ UNCHANGED error
     \/ /\ Throw("Table initialization failed")
        /\ obs' = [ obs EXCEPT !.storeDown = ~StoreAvailable ]
        /\ UNCHANGED tables
  /\ UNCHANGED << result, env, dsState, isConnected, bound, clientRows,
                  userRows, migrationLog, nextId, stats, clients, i, dbClient,
                  users, bi, task >>

\* Mutant: the searches do not look at isConnected.
NotConnected_Never == FALSE

\* searchClients, searchUsers: if (!this.isConnected) throw new Error('LDAP
\* not connected')
NotConnected == ~isConnected

\* searchClients: .filter(client => client.ou && client.ou !== 'clients')
KeepClient(ou) == ou # "" /\ ou # "clients"

\* searchClients over the entries found: ou is the first value of the
\* attribute or '', and the filter keeps the usable names.
searchClientsResult(found) ==
  SelectSeq([ k \in DOMAIN found |-> OrElse(found[k], "") ], KeepClient)

\* What searchClients may return: the organizational units of a fixed
\* directory, or any list of client names.
ClientAnswers ==
  IF dir.fixed THEN { searchClientsResult(dir.clients) }
  ELSE { searchClientsResult(found) : found \in SeqsUpTo(ClientOUs, MaxClients) }

\* LdapService.searchClients, and stats.totalClients = clients.length
SearchClients ==
  /\ pc = "searchClients"
  /\ IF NotConnected
     THEN /\ Throw("LDAP not connected")
          /\ UNCHANGED << clients, stats, i, obs >>
     ELSE \/ \E cs \in ClientAnswers :
               /\ clients' = cs
               /\ stats' = [ stats EXCEPT !.totalClients = Len(cs) ]
               /\ i' = 0
               /\ pc' = "clientLoop"
               /\ obs' = [ obs EXCEPT !.clientSearches = @ + 1,
                                      !.clientSearchOk = TRUE ]
               /\ UNCHANGED error
          \/ /\ Throw("LDAP client search failed")
             /\ obs' = Bump("clientSearches")
             /\ UNCHANGED << clients, stats, i >>
  /\ UNCHANGED << result, env, dsState, isConnected, bound, tables,
                  clientRows, userRows, migrationLog, nextId, dbClient, users, bi,
                  task >>

\* for (let i = 0; i < clients.length; i++)
ClientLoop ==
  /\ pc = "clientLoop"
  /\ pc' = IF i < Len(clients) THEN "upsertClient" ELSE "logRun"
  /\ obs' = IF i < Len(clients)
            THEN [ Progress(obs, "clientPct", i + 1, Len(clients)) EXCEPT
                     !.processed = Append(@, ClientAt(clients, i)) ]
            ELSE obs
  /\ UNCHANGED << error, result, env, dsState, isConnected, bound, tables,
                  clientRows, userRows, migrationLog, nextId, stats, clients, i,
                  dbClient, users, bi, task >>

\* Mutant: no try/catch around processClient; the error leaves the loop.
ClientCatch_Rethrow(ou) == Throw("Client processing failed") /\ UNCHANGED << stats, i >>

\* catch (error) of the client loop, then i++
ClientCatch(ou) ==
  /\ stats' = CountClientFailure(stats, ou)
  /\ i' = i + 1
  /\ pc' = "clientLoop"
  /\ UNCHANGED error

\* Mutant: upsertClient logs the error and returns nothing; processClient
\* goes on to the users of the client.
UpsertClientThrows_Swallowed(ou) ==
  pc' = "searchUsers" /\ dbClient' = 0 /\ UNCHANGED << stats, i, error >>

\* upsertClient rethrows (`Client upsert failed for ...`); processClient has
\* no handler, so the error reaches the catch of the client loop.
UpsertClientThrows(ou) == ClientCatch(ou) /\ UNCHANGED dbClient

\* Mutant: the lookup is by a generated id of an earlier run, which no
\* directory name matches.
FindClient_ByGeneratedId(ou) == NoClientRow

\* upsertClient: clientRepository.findOne({ where: { client_id: clientId } })
FindClient(ou) == clientRows[ou]

\* processClient: DatabaseService.upsertClient(client.ou)
UpsertClient ==
  /\ pc = "upsertClient"
  /\ LET c == i + 1
         ou == ClientAt(clients, i)
         called == [ obs EXCEPT !.upsertClientCalls[c] = @ + 1 ]
     IN \/ /\ StoreAvailable
           /\ IF FindClient(ou) = NoClientRow
              THEN /\ clientRows' = [ clientRows EXCEPT ![ou] =
                                        [ id |-> nextId, client_id |-> ou, name |-> Null ] ]
                   /\ nextId' = nextId + 1
                   /\ dbClient' = nextId
                   /\ obs' = [ called EXCEPT !.clientOutcome[c] = "upserted",
                                             !.storeWrites = @ + 1 ]
              ELSE /\ clientRows' = [ clientRows EXCEPT ![ou].name =
                                        OrElse(Null, clientRows[ou].name) ]
                   /\ dbClient' = clientRows[ou].id
                   /\ obs' = [ called EXCEPT !.clientOutcome[c] = "upserted" ]
                   /\ UNCHANGED nextId
           /\ pc' = "searchUsers"
           /\ UNCHANGED << stats, i, error >>
        \/ /\ UpsertClientThrows(ou)
           /\ obs' = [ called EXCEPT !.clientOutcome[c] = "upsertFailed" ]
           /\ UNCHANGED << clientRows, nextId >>
  /\ UNCHANGED << result, env, dsState, isConnected, bound, tables,
                  userRows, migrationLog, clients, users, bi, task >>

\* An entry without a userPassword attribute.
AbsentPassword == << Null >>

\* searchUsers: the UserData of an entry; an absent attribute becomes ''.
UserDataOf(entry) ==
  [ uid |-> OrElse(entry.uid, ""),
    givenName |-> OrElse(entry.givenName, ""),
    sn |-> OrElse(entry.sn, ""),
    mail |-> OrElse(entry.mail, ""),
    userPassword |-> IF entry.userPassword = AbsentPassword THEN EmptyPassword
                     ELSE entry.userPassword,
    dn |-> entry.dn ]

\* Mutant: searchUsers without its filter.
KeepUser_All(user) == TRUE

\* searchUsers: .filter(user => user.uid)
KeepUser(user) == user.uid # ""

searchUsersResult(found) ==
  SelectSeq([ k \in DOMAIN found |-> UserDataOf(found[k]) ], KeepUser)

\* What searchUsers(ou) may return: the entries of a fixed directory under
\* ou, or any list of entries.
UserAnswers(ou) ==
  IF dir.fixed THEN { searchUsersResult(dir.users[ou]) }
  ELSE { searchUsersResult(found) :
           found \in SeqsUpTo(UserEntries,
                              Min(MaxUsers, MaxTotalUsers - stats.totalUsers)) }

\* processClient: LdapService.searchUsers(client.ou); stats.totalUsers += n
SearchUsers ==
  /\ pc = "searchUsers"
  /\ LET c == i + 1
         ou == ClientAt(clients, i)
     IN IF NotConnected
        THEN /\ ClientCatch(ou)
             /\ obs' = [ obs EXCEPT !.clientOutcome[c] = "searchFailed" ]
             /\ UNCHANGED << users, bi, task >>
        ELSE \/ \E us \in UserAnswers(ou) :
                  /\ users' = us
                  /\ stats' = [ stats EXCEPT !.totalUsers = @ + Len(us) ]
                  /\ bi' = 0
                  /\ task' = [ p \in 1..Len(us) |-> IdleTask ]
                  /\ obs' = [ obs EXCEPT !.userSearches = @ + 1,
                                         !.clientOutcome[c] = "enumerated",
                                         !.enumerated[c] = Len(us),
                                         !.batches = << >>,
                                         !.userPct = -1 ]
                  /\ pc' = "batchLoop"
                  /\ UNCHANGED << i, error >>
             \/ /\ ClientCatch(ou)
                /\ obs' = [ obs EXCEPT !.userSearches = @ + 1,
                                       !.clientOutcome[c] = "searchFailed" ]
                /\ UNCHANGED << users, bi, task >>
  /\ UNCHANGED << result, env, dsState, isConnected, bound, tables,
                  clientRows, userRows, migrationLog, nextId, clients, dbClient >>

\* processUser up to its first await: a user with a credential awaits
\* convertLdapPassword, any other goes straight to upsertUser's findOne.
StartedTask(u) ==
  IF u.userPassword # EmptyPassword
  THEN [ IdleTask EXCEPT !.st = "converting" ]
  ELSE [ IdleTask EXCEPT !.st = "finding" ]

\* for (let i = 0; i < users.length; i += batchSize): the loop test, and
\* batch.map(user => this.processUser(...)) when it passes; when it fails
\* processClient returns and the client loop counts the client.
BatchLoop ==
  /\ pc = "batchLoop"
  /\ LET c == i + 1
         ps == BatchPositions(bi, Len(users), batchSize)
     IN IF bi # NaN /\ bi < Len(users)
        THEN /\ task' = [ p \in 1..Len(users) |->
                            IF p \in ps THEN StartedTask(users[p]) ELSE task[p] ]
             /\ obs' = [ obs EXCEPT
                  !.batches = IF ps = {} THEN @ ELSE Append(@, ps),
                  !.convertCalls[c] = [ p \in 1..MaxUsers |->
                      IF p \in ps /\ users[p].userPassword # EmptyPassword
                      THEN @[p] + 1 ELSE @[p] ],
                  !.upsertUserCalls[c] = [ p \in 1..MaxUsers |->
                      IF p \in ps /\ users[p].userPassword = EmptyPassword
                      THEN @[p] + 1 ELSE @[p] ] ]
             /\ pc' = "awaitBatch"
             /\ UNCHANGED << stats, i >>
        ELSE /\ stats' = CountClientSuccess(stats)
             /\ i' = i + 1
             /\ pc' = "clientLoop"
             /\ UNCHANGED << task, obs >>
  /\ UNCHANGED << error, result, env, dsState, isConnected, bound, tables,
                  clientRows, userRows, migrationLog, nextId, clients, dbClient,
                  users, bi >>

\* catch (error) of processUser
UserCatch(p) ==
  /\ stats' = CountUserFailure(stats, users[p].uid)
  /\ task' = [ task EXCEPT ![p].st = "failed" ]
  /\ obs' = Bump("usersFailed")

\* await PasswordUtils.convertLdapPassword(...) settles; upsertUser is called.
ConvertDone(p) ==
  /\ pc = "awaitBatch"
  /\ p \in DOMAIN task
  /\ task[p].st = "converting"
  /\ \E o \in BcryptHashes \cup { "throw" } :
       /\ task' = [ task EXCEPT ![p].st = "finding",
                               ![p].hash = convertLdapPassword(users[p].userPassword, o) ]
       /\ obs' = [ obs EXCEPT !.upsertUserCalls[i + 1][p] = @ + 1,
                              !.convertFailed = IF o = "throw" THEN @ + 1 ELSE @ ]
  /\ UNCHANGED << pc, error, result, env, dsState, isConnected, bound,
                  tables, clientRows, userRows, migrationLog, nextId, stats,
                  clients, i, dbClient, users, bi >>

\* upsertUser: await userRepository.findOne(...) settles.
FindDone(p) ==
  /\ pc = "awaitBatch"
  /\ p \in DOMAIN task
  /\ task[p].st = "finding"
  /\ \/ /\ StoreAvailable
        /\ task' = [ task EXCEPT ![p].st = "saving",
                                 ![p].found = userRows[<< dbClient, users[p].uid >>] ]
        /\ UNCHANGED << stats, obs >>
     \/ UserCatch(p)
  /\ UNCHANGED << pc, error, result, env, dsState, isConnected, bound,
                  tables, clientRows, userRows, migrationLog, nextId, clients, i,
                  dbClient, users, bi >>

\* upsertUser: the entity handed to userRepository.save
MergedUserRow(found, u, hash, clientId) ==
  IF found # NoUserRow
  THEN [ found EXCEPT !.first_name = OrElse(u.givenName, found.first_name),
                      !.last_name = OrElse(u.sn, found.last_name),
                      !.email = OrElse(u.mail, found.email),
                      !.password_hash = OrElse(hash, found.password_hash),
                      !.ldap_dn = u.dn ]
  ELSE [ client_id |-> clientId, username |-> u.uid, first_name |-> u.givenName,
         last_name |-> u.sn, email |-> u.mail, password_hash |-> hash,
         ldap_dn |-> u.dn ]

\* upsertUser: await userRepository.save(user) settles.  An INSERT for a key
\* that exists by now violates UNIQUE(client_id, username).
SaveDone(p) ==
  /\ pc = "awaitBatch"
  /\ p \in DOMAIN task
  /\ task[p].st = "saving"
  /\ LET key == << dbClient, users[p].uid >>
         row == MergedUserRow(task[p].found, users[p], task[p].hash, dbClient)
     IN \/ /\ StoreAvailable
           /\ task[p].found # NoUserRow \/ userRows[key] = NoUserRow
           /\ userRows' = [ userRows EXCEPT ![key] = row ]
           /\ stats' = CountUserSuccess(stats)
           /\ task' = [ task EXCEPT ![p].st = "ok" ]
           /\ obs' = [ obs EXCEPT !.usersOk = @ + 1,
                                  !.storeWrites = IF userRows[key] = row THEN @ ELSE @ + 1 ]
        \/ /\ UserCatch(p)
           /\ UNCHANGED userRows
  /\ UNCHANGED << pc, error, result, env, dsState, isConnected, bound,
                  tables, clientRows, migrationLog, nextId, clients, i, dbClient,
                  users, bi >>

\* await Promise.allSettled(promises) returns; progress; i += batchSize
AwaitBatch ==
  /\ pc = "awaitBatch"
  /\ AllSettled(BatchPositions(bi, Len(users), batchSize))
  /\ obs' = Progress(obs, "userPct",
                      IF NextIndex(bi, batchSize) = NaN THEN NaN
                      ELSE Min(bi + batchSize, Len(users)),
                      Len(users))
  /\ bi' = NextIndex(bi, batchSize)
  /\ pc' = "batchLoop"
  /\ UNCHANGED << error, result, env, dsState, isConnected, bound, tables,
                  clientRows, userRows, migrationLog, nextId, stats, clients, i,
                  dbClient, users, task >>

\* DatabaseService.logMigrationRun(stats): the values bound to the INSERT.
\* MigrationStats has no errorLog and no dryRun field.
SummaryRow(s) ==
  [ total_clients |-> s.totalClients, total_users |-> s.totalUsers,
    successful_clients |-> s.successfulClients,
    successful_users |-> s.successfulUsers,
    failed_clients |-> s.failedClients, failed_users |-> s.failedUsers,
    error_log |-> Null, dry_run |-> FALSE ]

\* Mutant: logMigrationRun has no catch; the INSERT error leaves migrate().
InsertFailed_Rethrown == Throw("Migration logging failed")

\* logMigrationRun, catch: the error is logged and the call returns.
InsertFailed == pc' = "finally" /\ UNCHANGED error

\* Step 4: the result is built, then logMigrationRun is awaited; a failed
\* INSERT is caught inside logMigrationRun.
LogMigrationRun ==
  /\ pc = "logRun"
  /\ result' = [ success |-> RunSucceeded(stats), stats |-> stats,
                  dryRun |-> dryRun, built |-> TRUE ]
  /\ \/ /\ StoreAvailable
        /\ migrationLog' = Append(migrationLog, SummaryRow(stats))
        /\ obs' = [ obs EXCEPT !.summaryInserts = @ + 1, !.summaryRows = @ + 1,
                               !.storeWrites = @ + 1 ]
        /\ pc' = "finally"
        /\ UNCHANGED error
     \/ /\ obs' = Bump("summaryInserts")
        /\ UNCHANGED migrationLog
        /\ InsertFailed
  /\ UNCHANGED << env, dsState, isConnected, bound, tables,
                  clientRows, userRows, nextId, stats, clients, i, dbClient, users,
                  bi, task >>

\* finally: await this.ldapService.disconnect(); then migrate() returns the
\* result or rethrows.  A failed unbind is logged and isConnected stays set.
Finally ==
  /\ pc = "finally"
  /\ IF isConnected
     THEN /\ obs' = Bump("unbinds")
          /\ \/ isConnected' = FALSE /\ bound' = FALSE
             \/ UNCHANGED << isConnected, bound >>
     ELSE UNCHANGED << isConnected, bound, obs >>
  /\ pc' = IF error = "none" THEN "returned" ELSE "threw"
  /\ UNCHANGED << error, result, env, dsState, tables, clientRows,
                  userRows, migrationLog, nextId, stats, clients, i, dbClient,
                  users, bi, task >>

Next ==
  \/ DataSourceSettles
  \/ MigrateStart
  \/ LdapConnect
  \/ InitializeTables
  \/ SearchClients
  \/ ClientLoop
  \/ UpsertClient
  \/ SearchUsers
  \/ BatchLoop
  \/ \E p \in 1..MaxUsers : ConvertDone(p)
  \/ \E p \in 1..MaxUsers : FindDone(p)
  \/ \E p \in 1..MaxUsers : SaveDone(p)
  \/ AwaitBatch
  \/ LogMigrationRun
  \/ Finally

Spec == Init /\ [][Next]_vars

(* ------------------------- termination signals -------------------------- *)
\* process.on('SIGINT' | 'SIGTERM'): the handler logs and calls
\* process.exit(0); the process ends where the run stands.
Signal ==
  /\ pc \notin { "returned", "threw", "exited" }
  /\ pc' = "exited"
  /\ obs' = [ obs EXCEPT !.exitCode = 0 ]
  /\ UNCHANGED << error, result, env, dsState, isConnected, bound, tables,
                  clientRows, userRows, migrationLog, nextId, stats, clients, i,
                  dbClient, users, bi, task >>

NextSignal == Next \/ Signal

\* A run that a termination signal may end at any point.
SpecSignal == Init /\ [][NextSignal]_vars

(* ------------------------------ a second run ---------------------------- *)
\* No call of the run has failed so far: no error is being thrown, the
\* DataSource initialised, no client and no user was counted as failed and
\* every summary INSERT succeeded.
NoFailure ==
  /\ error = "none"
  /\ dsState # "failed"
  /\ stats.failedClients = 0
  /\ stats.failedUsers = 0
  /\ obs.summaryRows = obs.summaryInserts

\* The program is started again after migrate() returned: a new process with
\* new services, the same configuration, the same directory and the store as
\* the first run left it.
Rerun ==
  /\ pc = "returned"
  /\ obs.run = 1
  /\ pc' = "start"
  /\ result' = NoResult
  /\ dsState' = "pending"
  /\ isConnected' = FALSE
  /\ bound' = FALSE
  /\ stats' = InitialStats
  /\ clients' = << >>
  /\ i' = 0
  /\ dbClient' = 0
  /\ users' = << >>
  /\ bi' = 0
  /\ task' = << >>
  /\ obs' = [ InitialObs EXCEPT
                !.run = 2,
                !.first = << result >>,
                !.storeBefore = << [ tables |-> tables, clientRows |-> clientRows,
                                     userRows |-> userRows,
                                     migrationLog |-> migrationLog,
                                     nextId |-> nextId ] >> ]
  /\ UNCHANGED << error, env, tables, clientRows, userRows, migrationLog, nextId >>

InitRerun ==
  /\ ProcessStart(InitialStores)
  /\ batchSize \in 1..MaxBatch
  /\ dryRun \in BOOLEAN
  /\ maxConcurrentUsers = DefaultMaxConcurrentUsers
  /\ dir \in FixedDirectories(UserEntries)

NextRerun == (Next /\ NoFailure') \/ Rerun

\* migrate() run twice in sequence against an unchanged directory, in an
\* environment where no directory call and no store call fails.
SpecRerun == InitRerun /\ [][NextRerun]_vars

(* ------------------------ credentials of any shape ---------------------- *)
MaxCredLen == 2     \* most tokens in a source credential explored

\* A credential is a sequence of tokens: the recognized tags, a tag that is
\* not recognized, and a content character.
CredTokens == LdapTags \cup { "{XYZ}", "a" }
Credentials == SeqsUpTo(CredTokens, MaxCredLen)

\* Directories with the one client clientA and the one user user1, whose
\* userPassword is any credential.
CredentialDirectories ==
  { [ fixed |-> TRUE, clients |-> << "clientA" >>,
      users |-> [ ou \in ClientOUs |->
                    IF ou = "clientA"
                    THEN << [ uid |-> "user1", givenName |-> "U", sn |-> "One",
                              mail |-> "a@x.com", userPassword |-> cr,
                              dn |-> "uid=user1" ] >>
                    ELSE << >> ] ] : cr \in Credentials }

InitConvert ==
  /\ ProcessStart(InitialStores)
  /\ batchSize \in 1..MaxBatch
  /\ dryRun \in BOOLEAN
  /\ maxConcurrentUsers = DefaultMaxConcurrentUsers
  /\ dir \in CredentialDirectories

\* A run over a directory whose one user carries a credential of any shape.
SpecConvert == InitConvert /\ [][Next]_vars

(* --------------------------- a failing logger --------------------------- *)
\* migrate, client loop: logger.progress(i + 1, clients.length, ...) throws.
\* The call stands before the try of the loop body, so the error reaches the
\* outer catch, which rethrows, and the finally block.
ProgressThrows ==
  /\ pc = "clientLoop"
  /\ i < Len(clients)
  /\ Throw("Logger failed")
  /\ UNCHANGED << result, env, dsState, isConnected, bound, tables, clientRows,
                  userRows, migrationLog, nextId, stats, clients, i, dbClient,
                  users, bi, task, obs >>

\* processUser: upsertUser returns, stats.successfulUsers++, then logger.debug
\* throws inside the try: the catch counts the user as failed as well.
DebugThrows(p) ==
  /\ pc = "awaitBatch"
  /\ p \in DOMAIN task
  /\ task[p].st = "saving"
  /\ LET key == << dbClient, users[p].uid >>
         row == MergedUserRow(task[p].found, users[p], task[p].hash, dbClient)
     IN /\ StoreAvailable
        /\ task[p].found # NoUserRow \/ userRows[key] = NoUserRow
        /\ userRows' = [ userRows EXCEPT ![key] = row ]
        /\ stats' = CountUserFailure(CountUserSuccess(stats), users[p].uid)
        /\ task' = [ task EXCEPT ![p].st = "failed" ]
        /\ obs' = [ obs EXCEPT !.usersOk = @ + 1,
                               !.storeWrites = IF userRows[key] = row THEN @ ELSE @ + 1 ]
  /\ UNCHANGED << pc, error, result, env, dsState, isConnected, bound, tables,
                  clientRows, migrationLog, nextId, clients, i, dbClient, users, bi >>

NextLogFail ==
  \/ Next
  \/ ProgressThrows
  \/ \E p \in 1..MaxUsers : DebugThrows(p)

\* Directories with one client.
SingleClientDirectories ==
  { d \in FixedDirectories(UserEntries) : Len(d.clients) = 1 }

InitLogFail ==
  /\ ProcessStart(InitialStores)
  /\ batchSize \in 1..MaxBatch
  /\ dryRun \in BOOLEAN
  /\ maxConcurrentUsers = DefaultMaxConcurrentUsers
  /\ dir \in SingleClientDirectories

\* A run over one client whose logger may throw when called.
SpecLogFail == InitLogFail /\ [][NextLogFail]_vars

(* ------------------------------- bootstrap ------------------------------ *)
\* bootstrap, migration branch: process.exit(result.success ? 0 : 1) once
\* migrate() returned, process.exit(1) in the catch when it threw.
ExitCodeOf(returned, res) == IF returned /\ res.success THEN 0 ELSE 1

\* bootstrap after await migrationService.migrate(): the result is logged
\* and the process exits.
Exit ==
  /\ pc \in { "returned", "threw" }
  /\ pc' = "exited"
  /\ obs' = [ obs EXCEPT !.exitCode = ExitCodeOf(pc = "returned", result) ]
  /\ UNCHANGED << error, result, env, dsState, isConnected, bound, tables,
                  clientRows, userRows, migrationLog, nextId, stats, clients, i,
                  dbClient, users, bi, task >>

NextBootstrap == Next \/ Signal \/ Exit

InitBootstrap ==
  /\ ProcessStart(InitialStores)
  /\ batchSize \in 1..MaxBatch
  /\ dryRun \in BOOLEAN
  /\ maxConcurrentUsers = DefaultMaxConcurrentUsers
  /\ dir \in SingleClientDirectories

\* The process from bootstrap() to its exit, over one client: migrate() runs,
\* a termination signal may arrive while it runs, and the process exits.
SpecBootstrap == InitBootstrap /\ [][NextBootstrap]_vars

(* ---------------------- a configured concurrency limit ------------------ *)
InitConcurrency ==
  /\ ProcessStart(InitialStores)
  /\ batchSize \in 1..MaxBatch
  /\ dryRun \in BOOLEAN
  /\ maxConcurrentUsers \in 1..MaxBatch
  /\ dir \in SingleClientDirectories

\* A run over one client with MAX_CONCURRENT_USERS set to a value of the
\* magnitude of the batch size.
SpecConcurrency == InitConcurrency /\ [][Next]_vars

(* --------------------------- the example scenario ----------------------- *)
User1Entry ==
  [ uid |-> "user1", givenName |-> "U", sn |-> "One", mail |-> "a@x.com",
    userPassword |-> SshaAbc, dn |-> "uid=user1" ]
User2Entry ==
  [ uid |-> "user2", givenName |-> "", sn |-> "", mail |-> "",
    userPassword |-> EmptyPassword, dn |-> "uid=user2" ]
User3Entry ==
  [ uid |-> "user3", givenName |-> "V", sn |-> "Three", mail |-> "b@x.com",
    userPassword |-> << "{MD5}", "d", "e", "f" >>, dn |-> "uid=user3" ]

\* clientA with user1 and user2, clientB with user3.
ExampleDirectory ==
  [ fixed |-> TRUE, clients |-> << "clientA", "clientB" >>,
    users |-> [ ou \in ClientOUs |->
                  IF ou = "clientA" THEN << User1Entry, User2Entry >>
                  ELSE << User3Entry >> ] ]

InitExample ==
  /\ ProcessStart(InitialStores)
  /\ batchSize \in 1..MaxBatch
  /\ dryRun \in BOOLEAN
  /\ maxConcurrentUsers = DefaultMaxConcurrentUsers
  /\ dir = ExampleDirectory

NextExample == Next /\ NoFailure'

\* A run over the example directory in which no directory call and no store
\* call fails.
SpecExample == InitExample /\ [][NextExample]_vars

(* ------------------- entries without a usable identity ------------------ *)
MaxFound == 2       \* most entries a search finds in these directories

\* The ou of an organizational unit under the base DN: a client name, the
\* container 'clients', an empty value, or no value.
FoundClientNames == ClientOUs \cup { "clients", "", Null }

\* Entries of class inetOrgPerson: user1 with every attribute, an entry
\* without uid, and user2 without any optional attribute.
FoundUserEntries ==
  { User1Entry,
    [ uid |-> Null, givenName |-> "N", sn |-> "Obody", mail |-> "n@x.com",
      userPassword |-> SshaAbc, dn |-> "cn=nobody" ],
    [ uid |-> "user2", givenName |-> Null, sn |-> Null, mail |-> Null,
      userPassword |-> AbsentPassword, dn |-> "uid=user2" ] }

\* Directories as the searches find them, before any filter; every client
\* holds the same entries.
FoundDirectories ==
  { [ fixed |-> TRUE, clients |-> cs, users |-> [ ou \in ClientOUs |-> us ] ] :
      cs \in SeqsUpTo(FoundClientNames, MaxFound),
      us \in SeqsUpTo(FoundUserEntries, MaxFound) }

InitFilter ==
  /\ ProcessStart({ FreshStore })
  /\ batchSize \in 1..MaxBatch
  /\ dryRun \in BOOLEAN
  /\ maxConcurrentUsers = DefaultMaxConcurrentUsers
  /\ dir \in FoundDirectories

\* A run over a directory that holds entries without a usable identity and
\* entries without optional attributes.
SpecFilter == InitFilter /\ [][Next]_vars

(* ------------------------------ run history ----------------------------- *)
MaxListings == 2    \* most --show-history invocations explored

Reverse(s) == [ k \in 1..Len(s) |-> s[Len(s) + 1 - k] ]

\* DatabaseService.getMigrationHistory(): the rows of migration_log, the
\* newest first.
getMigrationHistory(log) == Reverse(log)

\* The listing bootstrap prints and what it leaves behind.
HistoryShown(rows) ==
  /\ obs' = [ obs EXCEPT !.listings = @ + 1, !.listed = TRUE, !.history = rows ]
  /\ UNCHANGED << tables, clientRows, userRows, migrationLog, nextId >>

\* Mutant: showing the history empties the run-summary table.
ShowHistory_Clears ==
  /\ pc \in { "start", "returned", "threw" }
  /\ obs.listings < MaxListings
  /\ obs' = [ obs EXCEPT !.listings = @ + 1, !.listed = TRUE,
                         !.history = getMigrationHistory(migrationLog) ]
  /\ migrationLog' = << >>
  /\ UNCHANGED << pc, error, result, env, dsState, isConnected, bound, tables,
                  clientRows, userRows, nextId, stats, clients, i, dbClient,
                  users, bi, task >>

\* bootstrap with --show-history, started while no migration is running: a
\* process of its own that awaits getMigrationHistory(), prints every run it
\* returned and exits; when the query throws (no migration_log table, store
\* not reachable) the catch logs and exits without a listing.
ShowHistory ==
  /\ pc \in { "start", "returned", "threw" }
  /\ obs.listings < MaxListings
  /\ \/ /\ "migration_log" \in tables
        /\ HistoryShown(getMigrationHistory(migrationLog))
     \/ /\ obs' = [ obs EXCEPT !.listings = @ + 1, !.listed = FALSE,
                               !.history = << >> ]
        /\ UNCHANGED << tables, clientRows, userRows, migrationLog, nextId >>
  /\ UNCHANGED << pc, error, result, env, dsState, isConnected, bound, stats,
                  clients, i, dbClient, users, bi, task >>

InitHistory ==
  /\ ProcessStart(InitialStores)
  /\ batchSize \in 1..MaxBatch
  /\ dryRun \in BOOLEAN
  /\ maxConcurrentUsers = DefaultMaxConcurrentUsers
  /\ dir = ExampleDirectory

NextHistory == (Next /\ NoFailure') \/ Rerun \/ ShowHistory

\* The program started several times against one store: migrations in which
\* no directory call and no store call fails, one after the other, and
\* history listings before, between and after them.
SpecHistory == InitHistory /\ [][NextHistory]_vars

(* --------------------------- any batch size ----------------------------- *)
\* What parseInt(process.env.BATCH_SIZE || '100', 10) can give: a positive
\* number, 0 for '0', a negative number, NaN for a text that is no number.
BatchSizes == { NaN, -1, 0 } \cup (1..MaxBatch)

InitBatchSize ==
  /\ ProcessStart({ FreshStore })
  /\ batchSize \in BatchSizes
  /\ dryRun \in BOOLEAN
  /\ maxConcurrentUsers = DefaultMaxConcurrentUsers
  /\ dir \in SingleClientDirectories

\* A run over one client under any batch size.
SpecBatchSize == InitBatchSize /\ [][Next]_vars

\* ... in which every call that is pending returns or fails and every
\* continuation that is ready runs.
FairSpecBatchSize == SpecBatchSize /\ WF_vars(Next)

(* ------------------- one username twice under a client ------------------ *)
\* Entries of which two carry the uid user1; none has a credential.
User1Again ==
  [ uid |-> "user1", givenName |-> "W", sn |-> "", mail |-> "w@x.com",
    userPassword |-> EmptyPassword, dn |-> "uid=user1,ou=other" ]
DuplicateEntries ==
  { [ User1Entry EXCEPT !.userPassword = EmptyPassword ], User1Again, User2Entry }

\* Directories with the one client clientA and up to MaxFound of these entries.
DuplicateDirectories ==
  { [ fixed |-> TRUE, clients |-> << "clientA" >>,
      users |-> [ ou \in ClientOUs |-> us ] ] :
      us \in SeqsUpTo(DuplicateEntries, MaxFound) }

\* The store behaves: no call has failed so far for another reason than the
\* unique key of the users table.
StoreBehaves ==
  /\ error = "none"
  /\ dsState # "failed"
  /\ stats.failedClients = 0
  /\ obs.summaryRows = obs.summaryInserts

\* A user task fails in this step only because its INSERT meets a row that
\* another task stored after this task's lookup found none.
OnlyKeyConflicts ==
  \A p \in DOMAIN task \cap DOMAIN task' :
    (task[p].st # "failed" /\ task'[p].st = "failed") =>
      /\ task[p].st = "saving"
      /\ task[p].found = NoUserRow
      /\ userRows[<< dbClient, users[p].uid >>] # NoUserRow

InitDuplicate ==
  /\ ProcessStart(InitialStores)
  /\ batchSize \in 1..MaxBatch
  /\ dryRun \in BOOLEAN
  /\ maxConcurrentUsers = DefaultMaxConcurrentUsers
  /\ dir \in DuplicateDirectories

NextDuplicate == Next /\ StoreBehaves' /\ OnlyKeyConflicts

\* A run over one client whose entries may repeat a username, against a
\* store that fails no call except by its unique key.
SpecDuplicate == InitDuplicate /\ [][NextDuplicate]_vars

(* ---------------------- the directory service alone --------------------- *)
MaxCalls == 3       \* most LdapService calls explored after migrate() ended

\* After migrate() ended, a caller that holds the LdapService calls connect,
\* searchClients, searchUsers (for one of the clients last read) or
\* disconnect, in any order, each once the call before it has settled.
ServiceCall ==
  /\ \/ pc \in { "returned", "threw" }
     \/ obs.calls > 0 /\ pc \in { "ddl1", "clientLoop", "batchLoop" }
  /\ obs.calls < MaxCalls
  /\ \E op \in { "connect", "searchClients", "searchUsers", "finally" } :
       /\ pc' = op
       /\ IF op = "searchUsers"
          THEN clients # << >> /\ i' \in 0..(Len(clients) - 1)
          ELSE UNCHANGED i
  /\ error' = "none"
  /\ obs' = Bump("calls")
  /\ UNCHANGED << result, env, dsState, isConnected, bound, tables, clientRows,
                  userRows, migrationLog, nextId, stats, clients, dbClient,
                  users, bi, task >>

\* The call made runs: connect, searchClients, searchUsers, disconnect.
ServiceStep ==
  /\ obs.calls > 0
  /\ (LdapConnect \/ SearchClients \/ SearchUsers \/ Finally)

\* No store call has failed so far; directory calls may have.
StoreNeverFails ==
  /\ dsState # "failed"
  /\ error # "Table initialization failed"
  /\ stats.failedUsers = 0
  /\ obs.summaryRows = obs.summaryInserts
  /\ \A c \in 1..MaxClients : obs.clientOutcome[c] # "upsertFailed"

NextLdapService ==
  \/ obs.calls = 0 /\ Next /\ StoreNeverFails'
  \/ ServiceCall
  \/ ServiceStep

InitLdapService ==
  /\ ProcessStart({ FreshStore })
  /\ batchSize \in 1..MaxBatch
  /\ dryRun \in BOOLEAN
  /\ maxConcurrentUsers = DefaultMaxConcurrentUsers
  /\ dir \in { d \in SingleClientDirectories : Len(d.users[d.clients[1]]) <= 1 }

\* migrate() over one client with at most one user, against a store that
\* fails no call, and the LdapService called directly afterwards.
SpecLdapService == InitLdapService /\ [][NextLdapService]_vars

(* ----------------------------- validateSetup ---------------------------- *)
\* validateSetup returns: the outcome is kept and nothing else happens.
ValidationReturns(o, outcome) ==
  /\ obs' = [ o EXCEPT !.validation.result = outcome ]
  /\ pc' = "validated"

\* validateSetup: configService.validate() finds every required field, or
\* finds one missing and validateSetup returns false.
ValidateConfig ==
  /\ pc = "start"
  /\ \/ /\ obs' = [ obs EXCEPT !.validation.config = "ok" ]
        /\ pc' = "testBind"
     \/ ValidationReturns([ obs EXCEPT !.validation.config = "failed" ], "false")
  /\ UNCHANGED << error, result, env, dsState, isConnected, bound, tables,
                  clientRows, userRows, migrationLog, nextId, stats, clients, i,
                  dbClient, users, bi, task >>

\* LdapService.testConnection: await this.connect(); a refused bind is
\* caught, testConnection returns false and validateSetup returns false.
TestLdapBind ==
  /\ pc = "testBind"
  /\ \/ /\ isConnected' = TRUE
        /\ bound' = TRUE
        /\ obs' = Bump("connects")
        /\ pc' = "testUnbind"
     \/ /\ ValidationReturns([ obs EXCEPT !.connects = @ + 1, !.bindFailed = TRUE,
                                          !.validation.ldap = "failed" ], "false")
        /\ UNCHANGED << isConnected, bound >>
  /\ UNCHANGED << error, result, env, dsState, tables, clientRows, userRows,
                  migrationLog, nextId, stats, clients, i, dbClient, users, bi,
                  task >>

\* LdapService.testConnection: await this.disconnect(); return true.  A
\* failed unbind is logged inside disconnect and isConnected stays set.
TestLdapUnbind ==
  /\ pc = "testUnbind"
  /\ \/ isConnected' = FALSE /\ bound' = FALSE
     \/ UNCHANGED << isConnected, bound >>
  /\ obs' = [ obs EXCEPT !.unbinds = @ + 1, !.validation.ldap = "ok" ]
  /\ pc' = "testQuery"
  /\ UNCHANGED << error, result, env, dsState, tables, clientRows, userRows,
                  migrationLog, nextId, stats, clients, i, dbClient, users, bi,
                  task >>

\* DatabaseService.testConnection: await this.dataSource.query('SELECT 1');
\* a failed query is caught and validateSetup returns false.
TestDatabase ==
  /\ pc = "testQuery"
  /\ \/ /\ StoreAvailable
        /\ ValidationReturns([ obs EXCEPT !.validation.db = "ok" ], "true")
     \/ ValidationReturns([ obs EXCEPT !.validation.db = "failed",
                                       !.storeDown = ~StoreAvailable ], "false")
  /\ UNCHANGED << error, result, env, dsState, isConnected, bound, tables,
                  clientRows, userRows, migrationLog, nextId, stats, clients, i,
                  dbClient, users, bi, task >>

NextValidate ==
  \/ DataSourceSettles
  \/ ValidateConfig
  \/ TestLdapBind
  \/ TestLdapUnbind
  \/ TestDatabase

\* The program started with --validate-config: validateSetup alone.
SpecValidate == Init /\ [][NextValidate]_vars

(* ======================================================================== *)
(* Properties                                                               *)
(* ======================================================================== *)
InFlight(p) == task[p].st \in { "converting", "finding", "saving" }
Settled(p) == task[p].st \in { "ok", "failed" }
Finished == pc \in { "returned", "threw" }
ClientFailedOutcomes == { "upsertFailed", "searchFailed" }
FailedClientsSeen ==
  { c \in 1..MaxClients : obs.clientOutcome[c] \in ClientFailedOutcomes }
\* Clients whose processClient call has returned or thrown.
ClientsDone == { c \in 1..MaxClients : c <= i }

\* C1 - Partial-failure isolation: whatever subset of the users of a batch
\* fails, every user of a batch that has been awaited was attempted and has
\* settled, every failed user is counted in failedUsers and every other one in
\* successfulUsers, and every client whose upsert and enumeration succeeded
\* is counted in successfulClients once processClient has returned.
C1_PartialFailureIsolation ==
  /\ stats.successfulUsers = obs.usersOk
  /\ stats.failedUsers = obs.usersFailed
  /\ pc = "batchLoop" =>
       \A p \in DOMAIN task :
         p <= bi => Settled(p) /\ obs.upsertUserCalls[i + 1][p] = 1
  /\ stats.successfulClients =
       Cardinality({ c \in ClientsDone : obs.clientOutcome[c] = "enumerated" })

\* A batch of two in which the first user failed and the second succeeded,
\* and the client was counted as successful.
C1_Witness ==
  /\ pc = "clientLoop"
  /\ batchSize = 2
  /\ Len(task) >= 2
  /\ task[1].st = "failed"
  /\ task[2].st = "ok"
  /\ obs.clientOutcome[i] = "enumerated"
  /\ stats.successfulClients >= 1

\* C2 - Client-failure short-circuit: a client whose upsertClient failed is
\* counted in failedClients, its users are never enumerated, and no
\* conversion and no upsertUser call is made for it.
C2_ClientFailureShortCircuit ==
  /\ \A c \in 1..MaxClients :
       obs.clientOutcome[c] = "upsertFailed" =>
         /\ c \in ClientsDone
         /\ obs.enumerated[c] = -1
         /\ \A p \in 1..MaxUsers :
              obs.upsertUserCalls[c][p] = 0 /\ obs.convertCalls[c][p] = 0
  /\ stats.failedClients = Cardinality(FailedClientsSeen)

\* The first client's upsert failed and the second client's users were
\* processed.
C2_Witness ==
  /\ pc = "returned"
  /\ obs.clientOutcome[1] = "upsertFailed"
  /\ obs.enumerated[2] >= 1
  /\ stats.failedClients = 1

\* C3 - Per-client isolation: no client is attempted twice, every client
\* before the loop index has been attempted, and when the run ends every
\* client returned by searchClients has had exactly one upsertClient call,
\* whichever of them failed.
C3_PerClientIsolation ==
  /\ \A c \in 1..MaxClients : obs.upsertClientCalls[c] <= 1
  /\ \A c \in ClientsDone : obs.upsertClientCalls[c] = 1
  /\ Finished => \A c \in 1..Len(clients) : obs.upsertClientCalls[c] = 1

\* A run over two clients whose first client failed and whose second was
\* processed.
C3_Witness ==
  /\ pc = "returned"
  /\ Len(clients) = 2
  /\ obs.clientOutcome[1] \in ClientFailedOutcomes
  /\ obs.clientOutcome[2] = "enumerated"
  /\ obs.upsertClientCalls[2] = 1

\* C4 - Every user of a successfully enumerated client is attempted exactly
\* once: when processClient has returned, each position of the searchUsers
\* result has had exactly one upsertUser call, and no position ever has two,
\* for every list length and every positive batch size.
C4_EveryUserAttemptedOnce ==
  /\ batchSize > 0
  /\ \A c \in 1..MaxClients : \A p \in 1..MaxUsers :
       /\ obs.upsertUserCalls[c][p] <= 1
       /\ p > obs.enumerated[c] => obs.upsertUserCalls[c][p] = 0
       /\ (c \in ClientsDone /\ obs.clientOutcome[c] = "enumerated"
             /\ p <= obs.enumerated[c]) => obs.upsertUserCalls[c][p] = 1

\* Three users with a batch size of two (a last batch of one), all attempted.
C4_Witness ==
  /\ pc = "returned"
  /\ batchSize = 2
  /\ obs.enumerated[1] = 3
  /\ \A p \in 1..3 : obs.upsertUserCalls[1][p] = 1

\* The number of the batch (0-based) that position p of users falls in.
BatchOf(p) == (p - 1) \div batchSize

\* C5 - Batches are strictly sequential: a task is in flight only while
\* migrate() awaits its batch; whenever a task has started, every task of an
\* earlier batch of the client has settled; so nothing of the next batch or of
\* the next client starts before.
C5_BatchesSequential ==
  /\ \A p \in DOMAIN task : InFlight(p) => pc = "awaitBatch"
  /\ \A p, q \in DOMAIN task :
       (task[q].st # "idle" /\ BatchOf(p) < BatchOf(q)) => Settled(p)
  /\ \A p, q \in DOMAIN task :
       (InFlight(p) /\ InFlight(q)) => BatchOf(p) = BatchOf(q)

\* The second batch of a client is in flight after a first batch in which a
\* user failed.
C5_Witness ==
  /\ pc = "awaitBatch"
  /\ bi > 0
  /\ \E p \in DOMAIN task : InFlight(p)
  /\ \E q \in DOMAIN task : task[q].st = "failed"

\* C6 - The success flag of the returned result is true exactly when no
\* client and no user failed during the run.
C6_SuccessIffNoFailures ==
  pc = "returned" =>
    /\ result.built
    /\ result.success <=> (result.stats.failedClients = 0 /\ result.stats.failedUsers = 0)
    /\ result.success <=> (FailedClientsSeen = {} /\ obs.usersFailed = 0)

\* A returned result that is not successful because of a user failure alone.
C6_Witness ==
  /\ pc = "returned"
  /\ ~result.success
  /\ obs.usersFailed > 0
  /\ FailedClientsSeen = {}

\* The run got past the connecting step: connect() and initializeTables()
\* both returned.
PastConnecting ==
  /\ pc \notin { "start", "connect", "ddl1", "ddl2", "ddl3" }
  /\ error \notin { "LDAP connection failed", "Table initialization failed" }

StoreBefore == obs.storeBefore[1]
LogBefore == StoreBefore.migrationLog

C10_Claimed_ConnectionsReleased ==
  Finished => (~isConnected /\ ~bound /\ dsState # "ready")

\* C10, the directory half alone - when migrate() has returned or thrown,
\* the directory connection is not connected.
C10_Claimed_DirectoryReleased ==
  Finished => ~isConnected

\* C11 as claimed - a process that a termination signal has ended holds no
\* bound directory connection and no open store connection: both were
\* released before the exit.
C11_Claimed_SignalReleasesConnections ==
  pc = "exited" => (~bound /\ dsState # "ready")

\* C12 as claimed - dry-run non-mutation: when a dry run has returned, the
\* client rows and the user rows of the store are those the run found, and
\* absent failures the successful counts equal the numbers of clients and
\* users read from the directory.
C12_Claimed_DryRunNonMutation ==
  (dryRun /\ pc = "returned") =>
    /\ clientRows = StoreBefore.clientRows
    /\ userRows = StoreBefore.userRows
    /\ (result.stats.failedClients = 0 /\ result.stats.failedUsers = 0) =>
         /\ result.stats.successfulClients = result.stats.totalClients
         /\ result.stats.successfulUsers = result.stats.totalUsers

\* C13 as claimed - the dry_run flag of the summary row a run has written
\* equals the dry-run mode of that run.
C13_Claimed_SummaryFlagIsRunMode ==
  obs.summaryRows = 1 => migrationLog[Len(migrationLog)].dry_run = dryRun

ClientKeysIn(rows) == { ou \in DOMAIN rows : rows[ou] # NoClientRow }
UserKeysIn(rows) == { k \in DOMAIN rows : rows[k] # NoUserRow }
\* A result that reports every client and every user as successful.
AllSucceeded(r) ==
  /\ r.built
  /\ r.success
  /\ r.stats.successfulClients = r.stats.totalClients
  /\ r.stats.successfulUsers = r.stats.totalUsers
  /\ r.stats.failedClients = 0
  /\ r.stats.failedUsers = 0

\* C14 - Idempotence of rows and counts: when migrate() runs twice in
\* sequence against an unchanged directory and no directory or store call
\* fails, the second run creates no client row and no user row (the keys
\* present, the generated ids and the next id to generate stay those the
\* first run left, and no two client rows share an id), and each of the two
\* runs reports successfulClients = totalClients, successfulUsers =
\* totalUsers and zero failures.
C14_IdempotentRowsAndCounts ==
  /\ \A a, b \in ClientKeysIn(clientRows) :
       clientRows[a].id = clientRows[b].id => a = b
  /\ \A k \in UserKeysIn(userRows) :
       userRows[k].client_id = k[1] /\ userRows[k].username = k[2]
  /\ pc = "returned" => AllSucceeded(result)
  /\ obs.run = 2 =>
       /\ AllSucceeded(obs.first[1])
       /\ ClientKeysIn(clientRows) = ClientKeysIn(StoreBefore.clientRows)
       /\ UserKeysIn(userRows) = UserKeysIn(StoreBefore.userRows)
       /\ \A ou \in ClientOUs : clientRows[ou].id = StoreBefore.clientRows[ou].id
       /\ nextId = StoreBefore.nextId

\* A second run that has returned after reading two clients and three users,
\* as the first run did.
C14_Witness ==
  /\ obs.run = 2
  /\ pc = "returned"
  /\ result.stats.totalClients = 2
  /\ result.stats.totalUsers = 3
  /\ obs.first[1].stats.totalUsers = 3
  /\ obs.usersOk = 3

\* C15 as claimed - Idempotence of store state: when the second of two runs
\* against an unchanged directory has returned, every client row and every
\* user row, the stored credential included, equals its value after the
\* first run.
C15_Claimed_IdempotentStoreState ==
  (obs.run = 2 /\ pc = "returned") =>
    /\ clientRows = StoreBefore.clientRows
    /\ userRows = StoreBefore.userRows

\* The step in which the save of task p succeeds on the update path of
\* upsertUser: the lookup had found a row.
UpdateSaved(p) ==
  /\ p \in DOMAIN task
  /\ task[p].st = "saving"
  /\ task[p].found # NoUserRow
  /\ task'[p].st = "ok"

\* C16 - Merge-preserve-existing: whenever upsertUser updates an existing
\* user, each of given name, family name, email and target credential of the
\* saved row is the value of the row that was found when the incoming value
\* is empty or absent and the incoming value otherwise; the source path is
\* the incoming one; the username and the owning client are those of the row
\* that was found.
C16_MergePreserveExisting ==
  [][ \A p \in 1..MaxUsers :
        UpdateSaved(p) =>
          LET stored == task[p].found
              u == users[p]
              hash == task[p].hash
              saved == userRows'[<< dbClient, u.uid >>]
          IN /\ saved.first_name = IF u.givenName = "" THEN stored.first_name
                                   ELSE u.givenName
             /\ saved.last_name = IF u.sn = "" THEN stored.last_name ELSE u.sn
             /\ saved.email = IF u.mail = "" THEN stored.email ELSE u.mail
             /\ saved.password_hash = IF hash = Null THEN stored.password_hash
                                      ELSE hash
             /\ saved.ldap_dn = u.dn
             /\ saved.username = stored.username
             /\ saved.client_id = stored.client_id ]_vars

\* Both cases have happened in one client: the update of user2, whose entry
\* has no attribute and no credential, left the stored name, email and
\* credential and replaced the source path; the update of user1 replaced the
\* stored email and credential.
C16_Witness ==
  /\ pc = "batchLoop"
  /\ dbClient = 1
  /\ StoreBefore.userRows[<< 1, "user2" >>] = OldUser2Row
  /\ StoreBefore.userRows[<< 1, "user1" >>] = OldUserRow
  /\ \E p, q \in DOMAIN task :
       /\ users[p].uid = "user2" /\ task[p].st = "ok"
       /\ users[q].uid = "user1" /\ task[q].st = "ok" /\ task[q].hash # Null
  /\ userRows[<< 1, "user2" >>] = [ OldUser2Row EXCEPT !.ldap_dn = "uid=user2" ]
  /\ userRows[<< 1, "user1" >>].email = "a@x.com"
  /\ userRows[<< 1, "user1" >>].password_hash \in BcryptHashes

\* A credential that carries one of the recognized tags followed by content.
HasRecognizedTag(cr) == Len(cr) > 1 /\ Head(cr) \in LdapTags

\* The tasks of the current batch loop whose convertLdapPassword call has
\* returned.
Converted(p) ==
  /\ pc \in { "batchLoop", "awaitBatch" }
  /\ p \in DOMAIN task
  /\ users[p].userPassword # EmptyPassword
  /\ task[p].st \notin { "idle", "converting" }

\* C17 as claimed - the hash converter returns a converted credential only
\* for a credential that carries a recognized tag followed by content; for
\* every other credential it returns absence.
C17_Claimed_NullUnlessRecognizedTag ==
  \A p \in 1..MaxUsers :
    Converted(p) =>
      (task[p].hash # Null => HasRecognizedTag(users[p].userPassword))

\* Task p has a source credential and its conversion yielded absence: with
\* the credentials of UserEntries, the conversion failed.
ConversionFailed(p) ==
  /\ p \in DOMAIN task
  /\ users[p].userPassword # EmptyPassword
  /\ task[p].st \notin { "idle", "converting" }
  /\ task[p].hash = Null

\* C18 - a credential-conversion failure never aborts a user's migration:
\* when the conversion of a user settles, whether it failed or not, it yields
\* a hash or absence, no counter changes and upsertUser is called for the
\* user; and when the save of a user whose conversion failed succeeds, the
\* row is stored with the credential that was stored before (none for a new
\* row) and the user is counted in successfulUsers, not in failedUsers.
C18_ConversionFailureNeverAborts ==
  [][ \A p \in 1..MaxUsers :
        /\ (p \in DOMAIN task /\ task[p].st = "converting"
              /\ task'[p].st # "converting") =>
             /\ task'[p].st = "finding"
             /\ task'[p].hash \in BcryptHashes \cup { Null }
             /\ stats' = stats
             /\ obs'.upsertUserCalls[i + 1][p] = 1
        /\ (ConversionFailed(p) /\ task[p].st = "saving" /\ task'[p].st = "ok") =>
             /\ userRows'[<< dbClient, users[p].uid >>].password_hash =
                  task[p].found.password_hash
             /\ stats'.successfulUsers = stats.successfulUsers + 1
             /\ stats'.failedUsers = stats.failedUsers ]_vars

\* A user whose conversion failed has been saved as a new row without a
\* credential and counted as successful; no user has been counted as failed.
C18_Witness ==
  /\ pc \in { "awaitBatch", "batchLoop" }
  /\ \E p \in DOMAIN task :
       /\ ConversionFailed(p)
       /\ task[p].st = "ok"
       /\ task[p].found = NoUserRow
       /\ userRows[<< dbClient, users[p].uid >>].password_hash = Null
       /\ userRows[<< dbClient, users[p].uid >>].username = users[p].uid
  /\ stats.successfulUsers = 1
  /\ stats.failedUsers = 0

\* C19 as claimed - a failing progress or log call does not affect the run:
\* the users counted as failed are those whose upsert threw, no user is
\* counted twice, and once the clients have been enumerated migrate() throws
\* nothing, as with a working logger.
C19_Claimed_LoggingFailuresHarmless ==
  /\ stats.failedUsers = obs.usersFailed
  /\ stats.successfulUsers + stats.failedUsers <= stats.totalUsers
  /\ obs.clientSearchOk => error = "none"

\* C20 as claimed - the summary row a run has written carries the error
\* messages of the run: its error log is empty only when the run recorded no
\* failure.
C20_Claimed_SummaryCarriesErrors ==
  obs.summaryRows = 1 =>
    (migrationLog[Len(migrationLog)].error_log = Null
       <=> Len(result.stats.errors) = 0)

\* C21 - Processing order follows the directory: the names handed to
\* processClient are, in order, a prefix of the searchClients result (all of
\* it once the client loop has ended), and batch k (counted from 1) of a
\* client holds exactly the positions (k-1)*B+1 .. min(k*B, n) of the
\* searchUsers result, so that the batches of a client whose loop has ended
\* are pairwise disjoint and cover 1..n.
C21_OrderFollowsDirectory ==
  LET n == Len(users)
      done == Len(obs.processed)
  IN /\ done <= Len(clients)
     /\ \A c \in 1..done : obs.processed[c] = clients[c]
     /\ done \in { i, i + 1 }
     /\ pc \in { "logRun", "returned" } => obs.processed = clients
     /\ \A k \in 1..Len(obs.batches) :
          obs.batches[k] =
            { p \in 1..n : (k - 1) * batchSize + 1 <= p /\ p <= k * batchSize }
     /\ (pc = "batchLoop" /\ bi >= n) =>
          /\ UNION { obs.batches[k] : k \in 1..Len(obs.batches) } = 1..n
          /\ \A k, l \in 1..Len(obs.batches) :
               k # l => obs.batches[k] \cap obs.batches[l] = {}
          /\ \A k \in 1..Len(obs.batches) : obs.batches[k] # {}

\* Two different clients were processed in directory order and the second
\* one's two users went through two batches of one.
C21_Witness ==
  /\ pc = "logRun"
  /\ clients = << "clientA", "clientB" >>
  /\ obs.processed = << "clientA", "clientB" >>
  /\ obs.enumerated[1] = 1
  /\ obs.batches = << { 1 }, { 2 } >>
  /\ stats.successfulClients = 2

\* The user tasks that have started and not settled.
TasksInFlight == { p \in DOMAIN task : InFlight(p) }

\* C22 - Bounded in-flight work: at every moment the user tasks in flight
\* number at most the configured batch size, and when there are any,
\* migrate() is awaiting a batch of the client it is processing and all of
\* them lie in that one batch (the positions bi+1 .. bi+batchSize of the
\* users of that client).
C22_BoundedInFlight ==
  /\ Cardinality(TasksInFlight) <= batchSize
  /\ TasksInFlight # {} =>
       /\ pc = "awaitBatch"
       /\ obs.clientOutcome[i + 1] = "enumerated"
       /\ Len(users) = obs.enumerated[i + 1]
       /\ \A p \in TasksInFlight : bi < p /\ p <= bi + batchSize

\* A full batch of two is in flight while a third user of the client waits
\* for the next batch.
C22_Witness ==
  /\ pc = "awaitBatch"
  /\ batchSize = 2
  /\ Len(users) = 3
  /\ TasksInFlight = { 1, 2 }
  /\ task[3].st = "idle"

\* C23 as claimed - the number of user tasks in flight never exceeds the
\* configured MAX_CONCURRENT_USERS, whatever the batch size.
C23_Claimed_ConcurrencyLimit ==
  Cardinality(TasksInFlight) <= maxConcurrentUsers

\* What bcrypt.hash over a generated password may settle to.
BcryptOutcomes == BcryptHashes \cup { "throw" }

\* C24 - for a credential with a recognized tag the converted credential
\* comes from the generator alone: it is a bcrypt output or absent; for each
\* outcome of the generator the converter returns what it returns for every
\* other credential with a recognized tag, whatever the hash content; and
\* the credential stored for the user is that value or the one stored before.
C24_CredentialIndependentOfSource ==
  \A p \in 1..MaxUsers :
    (Converted(p) /\ HasRecognizedTag(users[p].userPassword)) =>
      /\ task[p].hash \in BcryptHashes \cup { Null }
      /\ \A cr \in Credentials : \A o \in BcryptOutcomes :
           HasRecognizedTag(cr) =>
             convertLdapPassword(cr, o) = convertLdapPassword(users[p].userPassword, o)
      /\ task[p].st = "ok" =>
           userRows[<< dbClient, users[p].uid >>].password_hash
             \in { task[p].hash, task[p].found.password_hash }

\* A user whose credential is {MD5} followed by content has been stored with
\* a generated bcrypt credential.
C24_Witness ==
  /\ pc = "batchLoop"
  /\ Len(users) = 1
  /\ users[1].userPassword = << "{MD5}", "a" >>
  /\ task[1].st = "ok"
  /\ userRows[<< dbClient, "user1" >>].password_hash \in BcryptHashes

\* The credential stored for username name of the client named ou.
StoredCredential(ou, name) ==
  userRows[<< clientRows[ou].id, name >>].password_hash

\* The statistics and the stored credentials the example scenario expects.
ExampleOutcome ==
  /\ result.built
  /\ result.stats.totalClients = 2
  /\ result.stats.totalUsers = 3
  /\ result.stats.successfulClients = 2
  /\ result.stats.successfulUsers = 3
  /\ result.stats.failedClients = 0
  /\ result.stats.failedUsers = 0
  /\ StoredCredential("clientA", "user1") \notin { Null, "" }
  /\ StoredCredential("clientB", "user3") \notin { Null, "" }
  /\ StoredCredential("clientA", "user2") = Null
  /\ userRows[<< clientRows["clientA"].id, "user2" >>].username = "user2"

\* C25 as claimed - example scenario: with no store failure, migrate() over
\* the example directory returns the expected counts, user1 and user3 are
\* stored with a non-empty credential and user2 with an absent one.
C25_Claimed_ExampleScenario ==
  pc = "returned" => ExampleOutcome

\* C25 - example scenario: with no directory or store failure, on a store
\* that held no user row before the run and when no credential conversion
\* failed, migrate() over the example directory returns the expected counts,
\* user1 and user3 are stored with a non-empty credential and user2 with an
\* absent one; in every case the counts are the expected ones.
C25_ExampleScenario ==
  pc = "returned" =>
    /\ result.stats.totalClients = 2 /\ result.stats.totalUsers = 3
    /\ result.stats.successfulClients = 2 /\ result.stats.successfulUsers = 3
    /\ result.stats.failedClients = 0 /\ result.stats.failedUsers = 0
    /\ (UserKeysIn(StoreBefore.userRows) = {} /\ obs.convertFailed = 0) =>
         ExampleOutcome

\* The example run has returned on a store that was empty, every conversion
\* having succeeded, with three user rows stored.
C25_Witness ==
  /\ pc = "returned"
  /\ StoreBefore = FreshStore
  /\ obs.convertFailed = 0
  /\ dir = ExampleDirectory
  /\ Cardinality(UserKeysIn(userRows)) = 3
  /\ result.success

\* C26 - progress percentages: progress is never called with a total of
\* zero; no percentage exceeds 100; for the client label and for the users
\* of a client the percentage of each call is at least that of the call
\* before; and the last call of a label reports 100: the client label once
\* the client loop has ended, the users of a client once its batch loop has
\* ended (no call at all for an empty list).
C26_ProgressPercentages ==
  /\ [](/\ ~obs.zeroTotal
        /\ obs.clientPct <= 100
        /\ obs.userPct <= 100
        /\ pc = "logRun" =>
             obs.clientPct = IF Len(clients) = 0 THEN -1 ELSE 100
        /\ (pc = "batchLoop" /\ bi >= Len(users)) =>
             obs.userPct = IF Len(users) = 0 THEN -1 ELSE 100)
  /\ [][ /\ obs'.clientPct >= obs.clientPct
         /\ pc # "searchUsers" => obs'.userPct >= obs.userPct ]_vars

\* The client loop has ended after two clients (50%, 100%), the second with
\* three users in batches of two (67%, 100%).
C26_Witness ==
  /\ pc = "logRun"
  /\ Len(clients) = 2
  /\ batchSize = 2
  /\ obs.enumerated[2] = 3
  /\ Len(obs.batches) = 2
  /\ obs.clientPct = 100
  /\ obs.userPct = 100

\* The client rows that a stored user row with client id cid references.
OwnersOf(cid) ==
  { ou \in ClientKeysIn(clientRows) : clientRows[ou].id = cid }

\* C27 - Ownership: every stored user row references exactly one client row
\* that exists in the store; and a step that writes a user row writes it
\* under the row of the client being processed, whose upsert has succeeded
\* in this run and under which the user was enumerated.
C27_Ownership ==
  /\ [](\A k \in UserKeysIn(userRows) :
          /\ userRows[k].client_id = k[1]
          /\ Cardinality(OwnersOf(k[1])) = 1)
  /\ [][ \A k \in UserKeys :
           userRows'[k] # userRows[k] =>
             /\ obs.clientOutcome[i + 1] = "enumerated"
             /\ OwnersOf(k[1]) = { ClientAt(clients, i) }
             /\ \E p \in DOMAIN users : users[p].uid = k[2] ]_vars

\* Users are stored under two clients, each referencing its own client row.
C27_Witness ==
  /\ pc = "logRun"
  /\ clients = << "clientA", "clientB" >>
  /\ userRows[<< clientRows["clientA"].id, "user1" >>] # NoUserRow
  /\ userRows[<< clientRows["clientB"].id, "user2" >>] # NoUserRow
  /\ clientRows["clientA"].id # clientRows["clientB"].id
  /\ obs.usersOk >= 2

\* A user record with a username and a source path whose optional
\* attributes are strings (possibly empty) and whose credential is a
\* credential (possibly empty).
UsableUser(u) ==
  /\ u.uid \notin { "", Null }
  /\ u.dn \notin { "", Null }
  /\ u.givenName # Null /\ u.sn # Null /\ u.mail # Null
  /\ u.userPassword # AbsentPassword

\* C28 - every client handed to processClient has a name that is not empty
\* and not 'clients'; every user record that searchUsers returned, and so
\* every record handed to the converter and to upsertUser, has a non-empty
\* username and a source path and carries its absent optional attributes
\* as empty strings; every stored user row has a username and a source
\* path; and no user is counted as failed unless its upsert threw.
C28_UsableIdentity ==
  /\ \A c \in DOMAIN clients : clients[c] \notin { "", "clients", Null }
  /\ \A c \in DOMAIN obs.processed : obs.processed[c] \in ClientOUs
  /\ \A p \in DOMAIN users : UsableUser(users[p])
  /\ \A p \in DOMAIN task : task[p].st # "idle" => UsableUser(users[p])
  /\ \A k \in UserKeysIn(userRows) :
       /\ userRows[k].username \notin { "", Null }
       /\ userRows[k].ldap_dn \notin { "", Null }
  /\ stats.failedUsers = obs.usersFailed

\* The directory held the container 'clients' and clientA, whose entries
\* were one without uid and user2 without optional attributes: the run
\* processed clientA alone, stored user2 alone with empty attributes and no
\* credential, and succeeded.
C28_Witness ==
  /\ pc = "returned"
  /\ dir.clients = << "clients", "clientA" >>
  /\ Len(dir.users["clientA"]) = 2
  /\ dir.users["clientA"][1].uid = Null
  /\ dir.users["clientA"][2].mail = Null
  /\ clients = << "clientA" >>
  /\ Len(users) = 1
  /\ users[1].mail = ""
  /\ UserKeysIn(userRows) = { << 1, "user2" >> }
  /\ userRows[<< 1, "user2" >>].email = ""
  /\ userRows[<< 1, "user2" >>].password_hash = Null
  /\ result.success
  /\ result.stats.totalUsers = 1

\* C29 (as claimed) - a process that has exited exited with code 0 if and
\* only if migrate() had returned a result with success = true.
C29_Claimed_ExitCode ==
  pc = "exited" =>
    (obs.exitCode = 0 <=> (result.built /\ result.success))

\* The listing h shows every row of the run-summary table log, in the one
\* or in the other chronological order.
NewestFirst(h, log) == h = [ k \in 1..Len(log) |-> log[Len(log) + 1 - k] ]
OldestFirst(h, log) == h = log

\* The run-summary table as the listing before this one found it: rows are
\* only ever appended.
LogAtLastListing == SubSeq(migrationLog, 1, Len(obs.history))

C31_Claimed_Terminates == <>(pc \in { "returned", "threw" })

\* C32 (as claimed) - at every state successfulUsers + failedUsers <=
\* totalUsers, and in the result migrate() returned the client counters and
\* the user counters both add up to their totals.
C32_Claimed_Accounting ==
  /\ stats.successfulUsers + stats.failedUsers <= stats.totalUsers
  /\ (pc = "returned" /\ result.built) =>
       /\ result.stats.successfulClients + result.stats.failedClients
            = result.stats.totalClients
       /\ result.stats.successfulUsers + result.stats.failedUsers
            = result.stats.totalUsers

\* C33 - at every point of a run the error collection holds as many messages
\* as failedClients + failedUsers, and a step either leaves the collection
\* as it is or appends one message to it.
C33_OneMessagePerFailure ==
  /\ [](Len(stats.errors) = stats.failedClients + stats.failedUsers)
  /\ [][ \/ stats'.errors = stats.errors
         \/ /\ Len(stats'.errors) = Len(stats.errors) + 1
            /\ SubSeq(stats'.errors, 1, Len(stats.errors)) = stats.errors
            /\ stats'.failedClients + stats'.failedUsers
                 = stats.failedClients + stats.failedUsers + 1 ]_vars

\* A run returned after two users failed, one of them in a task whose upsert
\* had succeeded before the logger threw: two messages, one per failure.
C33_Witness ==
  /\ pc = "returned"
  /\ result.stats.failedUsers = 2
  /\ result.stats.failedClients = 0
  /\ obs.usersFailed = 1
  /\ Len(result.stats.errors) = 2
  /\ result.stats.errors[1][1] = "User"
  /\ result.stats.errors[2][1] = "User"

\* The user rows after upsertUser ran for the entries us one after the other,
\* each to its end before the next one starts.
RECURSIVE InOrderRows(_, _, _)
InOrderRows(rows, us, cid) ==
  IF us = << >> THEN rows
  ELSE LET u == Head(us)
           key == << cid, u.uid >>
       IN InOrderRows([ rows EXCEPT ![key] = MergedUserRow(rows[key], u, Null, cid) ],
                      Tail(us), cid)

\* C34 (as claimed) - for a fixed directory and a store that behaves, the
\* statistics migrate() returns and the final user rows are the same under
\* every interleaving of the tasks of a batch: they are those of the
\* interleaving in which each task runs to its end before the next.
C34_Claimed_InterleavingIndependent ==
  pc = "returned" =>
    /\ result.stats.successfulUsers = Len(users)
    /\ result.stats.failedUsers = 0
    /\ result.success
    /\ userRows = InOrderRows(StoreBefore.userRows, users, dbClient)

\* A step in which a store operation of the run is carried out: a CREATE
\* TABLE of initializeTables, the client upsert, the lookup or the save of a
\* user upsert, the summary insert.
StoreOperationStep ==
  \/ /\ pc \in { "ddl1", "ddl2", "ddl3", "upsertClient", "logRun" }
     /\ pc' \notin { pc, "exited" }
  \/ \E p \in DOMAIN task \cap DOMAIN task' :
       /\ task[p].st \in { "finding", "saving" }
       /\ task'[p].st # task[p].st

\* C35 (as claimed) - every store operation of a run is carried out on a
\* data source that has finished initialising successfully.
C35_Claimed_StoreReadyBeforeUse ==
  [][ StoreOperationStep => dsState = "ready" ]_vars

\* This step issues a directory query.
DirectoryQueryStep ==
  \/ obs'.clientSearches # obs.clientSearches
  \/ obs'.userSearches # obs.userSearches

\* C36 - a directory query is issued only on a connection that a bind has
\* opened and no completed disconnect has closed; searchClients and
\* searchUsers called on any other connection fail (searchClients with 'LDAP
\* not connected') and issue no query; and while migrate() runs every search
\* finds the connection open, so no search of a run fails that way.
C36_SearchOnlyWhileConnected ==
  /\ [][ /\ DirectoryQueryStep => bound
         /\ (pc \in { "searchClients", "searchUsers" } /\ ~bound /\ pc' # pc) =>
              /\ ~DirectoryQueryStep
              /\ pc = "searchClients" => error' = "LDAP not connected"
              /\ pc = "searchUsers" =>
                   stats'.failedClients = stats.failedClients + 1 ]_vars
  /\ [](obs.calls = 0 =>
          /\ error # "LDAP not connected"
          /\ pc \in { "searchClients", "searchUsers" } => bound)

\* migrate() returned after one client search and one user search and closed
\* the connection; searchClients called after it issued no query and failed
\* with 'LDAP not connected'.
C36_Witness ==
  /\ obs.calls = 1
  /\ ~bound
  /\ obs.unbinds = 1
  /\ result.built
  /\ error = "LDAP not connected"
  /\ obs.clientSearches = 1
  /\ obs.userSearches = 1
  /\ obs.clientSearchOk

\* validateSetup returned what its three checks say, made them in order and
\* stopped at the first that failed, and left every table as it found it.
ValidationOutcome ==
  LET v == obs.validation
  IN /\ v.result \in { "true", "false" }
     /\ v.result = "true" <=> (v.config = "ok" /\ v.ldap = "ok" /\ v.db = "ok")
     /\ v.config = "failed" => (v.ldap = "none" /\ v.db = "none")
     /\ v.ldap = "failed" => v.db = "none"
     /\ v.ldap # "none" => v.config = "ok"
     /\ v.db # "none" => v.ldap = "ok"
     /\ error = "none"
     /\ tables = StoreBefore.tables
     /\ clientRows = StoreBefore.clientRows
     /\ userRows = StoreBefore.userRows
     /\ migrationLog = StoreBefore.migrationLog

\* C37 (as claimed) - when validateSetup has returned it has not thrown, its
\* value is true exactly when the configuration, the directory test and the
\* store test all passed, checked in that order up to the first failure, no
\* row was written, and the directory connection is disconnected.
C37_Claimed_ValidateSetup ==
  pc = "validated" => (ValidationOutcome /\ ~isConnected /\ ~bound)

\* The RunResult migrate() builds from the statistics s.
ResultOf(s) ==
  [ success |-> (s.failedClients = 0 /\ s.failedUsers = 0), stats |-> s,
    dryRun |-> dryRun, built |-> TRUE ]

====
